---- MODULE Spec2Model ----
(***************************************************************************)
(* A model of the mitochondria cells: OnceCell (src/src/once.rs),         *)
(* MoveCell (src/src/move.rs) and CloningCell (src/src/cloning.rs).        *)
(*                                                                         *)
(* OnceCell: the slot is an Option<T>.  A call of try_init_once/init_once  *)
(* on an Absent cell invokes its initializer f; while f runs it may call   *)
(* back into the cell, so the active calls form a stack.  One frame of     *)
(* `stack` is one call whose initializer is running.                       *)
(***************************************************************************)
EXTENDS Naturals, Sequences, FiniteSets

\* Bounds of the model.
MaxDepth == 3        \* deepest nesting of calls whose initializer is running
MaxCalls == 4        \* initializer invocations in one lifetime of the cell
MaxReplace == 3      \* MoveCell::replace calls in one lifetime of the cell
MaxWrap == 1         \* Box<..> and Option<..> wrappers around a CloningCell's T
MaxObjs == 3         \* values alive at once around a CloningCell

\* The value type T and the error type E of the initializers.
Values == {"ribosome", "nucleolus", "vesicle"}
Errors == {"e1", "e2"}

\* Option<T> and Result<T, E>.
None == <<>>
Some(v) == <<v>>
Ok(v) == <<"Ok", v>>
Err(e) == <<"Err", e>>
IsOk(r) == r[1] = "Ok"
IsErr(r) == r[1] = "Err"
Unwrap(o) == o[Len(o)]

Results == {Ok(v) : v \in Values} \cup {Err(e) : e \in Errors}
CallOps == {"init_once", "try_init_once"}

VARIABLES
  cell,      \* OnceCell.0: the slot, None or Some(value)
  stack,     \* the calls whose initializer is running, outermost first
  last,      \* the last step: the operation, what f returned, what the call returned
  ncalls,    \* how many times an initializer has been invoked
  firstOk,   \* the value of the first initializer that returned successfully
  okRets,    \* <<depth, value>> of every initializer that returned successfully
  topErr,    \* the error the last failed top-level call returned
  created,   \* the slot as the constructor left it
  panicked,  \* an unwrap() of the cell's own code failed
  nwrites,   \* how many times the write of line 151 has been executed
  refs,      \* a reference into the slot has been handed out and may be alive
  copy,      \* <<slot>> of the cell the last clone() made, <<>> before any clone
  mvalue,    \* MoveCell.value
  malive,    \* the MoveCell has not been consumed by into_inner
  margs,     \* <<v0, v1, ..., vn>>: the construction value and the replace arguments
  mrets,     \* what the replace calls returned, in order
  mlast,     \* the last MoveCell step and its return value
  mtok,      \* which of margs the MoveCell holds (its index in margs)
  mout,      \* the values handed back to callers, as indices in margs
  ctype,     \* CloningCell<T>: the type T, outermost constructor first
  cheap,     \* the values alive around the CloningCell: object -> content
  cslot,     \* CloningCell.0: the object the slot holds
  ccopy,     \* the object the last get() returned, 0 if none is held
  cop,       \* the last CloningCell operation
  cgot,      \* what the last get() returned, and the get() before it
  clastset,  \* the argument of the most recent set(), or of new()
  cnest,     \* what a get() issued from a destructor inside set() observed
  caliased,  \* a clone run by get() accessed the slot it was cloning
  cub        \* the CloningCell has run into undefined behaviour

onceVars == <<cell, stack, last, ncalls, firstOk, okRets, topErr, created, panicked,
              nwrites, refs, copy>>
moveVars == <<mvalue, malive, margs, mrets, mlast, mtok, mout>>
cloningVars == <<ctype, cheap, cslot, ccopy, cop, cgot, clastset, cnest, caliased, cub>>
vars == <<cell, stack, last, ncalls, firstOk, okRets, topErr, created, panicked,
          nwrites, refs, copy,
          mvalue, malive, margs, mrets, mlast, mtok, mout,
          ctype, cheap, cslot, ccopy, cop, cgot, clastset, cnest, caliased, cub>>

Event(op, depth, invoked, fres, pre, res) ==
  [op |-> op, depth |-> depth, invoked |-> invoked, fres |-> fres,
   pre |-> pre, res |-> res]

-----------------------------------------------------------------------------
(* OnceCell *)

\* OnceCell::new and OnceCell::new_with_value.
new == None
new_with_value(value) == Some(value)

\* OnceCell::as_ref: the slot's Option, by reference.
as_ref(slot) == slot

\* OnceCell::as_mut: the slot's Option, by mutable reference.
as_mut(slot) == slot

\* The first check left out: the initializer is invoked whatever the slot holds.
AlreadyInitialised_never(slot) == FALSE

\* try_init_once, lines 140-143: the cell was already initialised.
AlreadyInitialised(slot) == as_ref(slot) # None

\* Ok(self.as_ref().unwrap()), line 152: unwrap() panics on None.
OkRef(o) == IF o = None THEN <<"Panic", "unwrap">> ELSE Ok(Unwrap(o))

\* What try_init_once does once f has returned: the slot it leaves, what it
\* returns, whether the write of line 151 ran, whether unwrap() panicked.
Finish(slot, ret, wrote) ==
  [slot |-> slot, ret |-> ret, wrote |-> wrote, panic |-> ret[1] = "Panic"]

\* The second check left out: whatever f returned is stored.
try_init_once_finish_no_recheck(slot, result) ==
  IF IsErr(result)
  THEN Finish(slot, result, FALSE)
  ELSE Finish(Some(result[2]), OkRef(as_ref(Some(result[2]))), TRUE)

\* try!(result) moved before the second check.
try_init_once_finish_err_first(slot, result) ==
  IF IsErr(result)
  THEN Finish(slot, result, FALSE)
  ELSE IF as_ref(slot) # None
       THEN Finish(slot, OkRef(as_ref(slot)), FALSE)
       ELSE Finish(Some(result[2]), OkRef(as_ref(Some(result[2]))), TRUE)

\* Every failure collapsed to one error value.
try_init_once_finish_unit_err(slot, result) ==
  IF as_ref(slot) # None
  THEN Finish(slot, OkRef(as_ref(slot)), FALSE)
  ELSE IF IsErr(result)
       THEN Finish(slot, Err("e1"), FALSE)
       ELSE Finish(Some(result[2]), OkRef(as_ref(Some(result[2]))), TRUE)

\* The value written to a copy of the Option, not through the slot's pointer.
try_init_once_finish_no_store(slot, result) ==
  IF as_ref(slot) # None
  THEN Finish(slot, OkRef(as_ref(slot)), FALSE)
  ELSE IF IsErr(result)
       THEN Finish(slot, result, FALSE)
       ELSE Finish(slot, OkRef(as_ref(slot)), TRUE)

\* try_init_once, lines 147-152, once f has returned `result`: the second
\* check, then try!(result), then the write and the unwrap of as_ref().
try_init_once_finish(slot, result) ==
  IF as_ref(slot) # None
  THEN Finish(slot, OkRef(as_ref(slot)), FALSE)
  ELSE IF IsErr(result)
       THEN Finish(slot, result, FALSE)
       ELSE Finish(Some(result[2]), OkRef(as_ref(Some(result[2]))), TRUE)

\* The slot left half-written when f does not return.
try_init_once_unwind_half(slot) == Some("half-initialized")

\* try_init_once when f() of line 144 unwinds: lines 145-152 do not run, and
\* nothing was written before line 144.
try_init_once_unwind(slot) == slot

\* What the initializer of a call may return: init_once wraps f() in Ok.
InitializerResults(op) ==
  IF op = "init_once" THEN {Ok(v) : v \in Values} ELSE Results

\* The value not cloned: every clone is Absent.
clone_always_new(slot) == new

\* impl Clone for OnceCell: the slot of the new cell.
clone(slot) ==
  IF as_ref(slot) # None THEN new_with_value(Unwrap(as_ref(slot))) ELSE new

OnceInit ==
  /\ cell \in {new} \cup {new_with_value(v) : v \in Values}
  /\ stack = <<>>
  /\ last = Event("new", 0, FALSE, <<>>, <<>>, <<>>)
  /\ ncalls = 0
  /\ firstOk = None
  /\ okRets = {}
  /\ topErr = None
  /\ created = cell
  /\ panicked = FALSE
  /\ nwrites = 0
  /\ refs = FALSE
  /\ copy = <<>>

\* A call of init_once or try_init_once, from the top level or from the
\* running initializer: it returns at once on a Present cell, and invokes
\* its initializer otherwise.
Call(op) ==
  /\ ~panicked
  /\ IF AlreadyInitialised(cell)
     THEN /\ last' = Event(op, Len(stack) + 1, FALSE, <<>>, cell,
                           Ok(Unwrap(as_ref(cell))))
          /\ refs' = TRUE
          /\ UNCHANGED <<cell, stack, ncalls, firstOk, okRets, topErr, created, panicked>>
     ELSE /\ Len(stack) < MaxDepth
          /\ ncalls < MaxCalls
          /\ stack' = Append(stack, op)
          /\ ncalls' = ncalls + 1
          /\ last' = Event("enter", Len(stack) + 1, TRUE, <<>>, cell, <<>>)
          /\ UNCHANGED <<cell, firstOk, okRets, topErr, created, panicked, refs>>
  /\ UNCHANGED <<nwrites, copy>>
  /\ UNCHANGED moveVars
  /\ UNCHANGED cloningVars

\* The running initializer returns `result`; its call finishes.
Return(result) ==
  /\ ~panicked
  /\ stack # <<>>
  /\ LET op == stack[Len(stack)]
         out == try_init_once_finish(cell, result)
     IN /\ result \in InitializerResults(op)
        /\ cell' = out.slot
        /\ stack' = SubSeq(stack, 1, Len(stack) - 1)
        /\ last' = Event(op, Len(stack), TRUE, result, cell, out.ret)
        /\ panicked' = (out.panic \/ (op = "init_once" /\ IsErr(out.ret)))
        /\ nwrites' = IF out.wrote THEN nwrites + 1 ELSE nwrites
        /\ refs' = (refs \/ IsOk(out.ret))
        /\ firstOk' = IF IsOk(result) /\ firstOk = None
                      THEN Some(result[2]) ELSE firstOk
        /\ okRets' = IF IsOk(result)
                     THEN okRets \cup {<<Len(stack), result[2]>>} ELSE okRets
        /\ topErr' = IF Len(stack) = 1 /\ IsErr(out.ret)
                      THEN Some(out.ret[2]) ELSE topErr
  /\ UNCHANGED <<ncalls, created, copy>>
  /\ UNCHANGED moveVars
  /\ UNCHANGED cloningVars

\* The running initializer does not return: it unwinds out of its call,
\* into the initializer that made the call or to the top level.
Unwind ==
  /\ ~panicked
  /\ stack # <<>>
  /\ cell' = try_init_once_unwind(cell)
  /\ stack' = SubSeq(stack, 1, Len(stack) - 1)
  /\ last' = Event("unwind", Len(stack), TRUE, <<>>, cell, <<>>)
  /\ UNCHANGED <<ncalls, firstOk, okRets, topErr, created, panicked,
                 nwrites, refs, copy>>
  /\ UNCHANGED moveVars
  /\ UNCHANGED cloningVars

\* as_ref, from the top level or from the running initializer.
AsRef ==
  /\ ~panicked
  /\ last' = Event("as_ref", Len(stack), FALSE, <<>>, cell, as_ref(cell))
  /\ refs' = (refs \/ as_ref(cell) # None)
  /\ UNCHANGED <<cell, stack, ncalls, firstOk, okRets, topErr, created, panicked>>
  /\ UNCHANGED <<nwrites, copy>>
  /\ UNCHANGED moveVars
  /\ UNCHANGED cloningVars

\* clone, from the top level or from the running initializer: a new cell.
Clone ==
  /\ ~panicked
  /\ copy' = <<clone(cell)>>
  /\ last' = Event("clone", Len(stack), FALSE, <<>>, cell, clone(cell))
  /\ UNCHANGED <<cell, stack, ncalls, firstOk, okRets, topErr, created, panicked>>
  /\ UNCHANGED <<nwrites, refs>>
  /\ UNCHANGED moveVars
  /\ UNCHANGED cloningVars

\* try_init_once on the cell that clone() made, with an initializer that
\* returns `result` without calling into either cell.
CopyTryInitOnce(result) ==
  /\ ~panicked
  /\ copy # <<>>
  /\ IF AlreadyInitialised(copy[1])
     THEN /\ last' = Event("copy.try_init_once", Len(stack), FALSE, <<>>,
                           copy[1], Ok(Unwrap(as_ref(copy[1]))))
          /\ UNCHANGED <<copy, panicked>>
     ELSE LET out == try_init_once_finish(copy[1], result)
          IN /\ copy' = <<out.slot>>
             /\ last' = Event("copy.try_init_once", Len(stack), TRUE, result,
                              copy[1], out.ret)
             /\ panicked' = out.panic
  /\ UNCHANGED <<cell, stack, ncalls, firstOk, okRets, topErr, created,
                 nwrites, refs>>
  /\ UNCHANGED moveVars
  /\ UNCHANGED cloningVars

\* as_mut takes &mut self: no call on the cell is running and every
\* reference handed out before has ended.  The caller may assign through the
\* reference it returns.
AsMut(w) ==
  /\ ~panicked
  /\ stack = <<>>
  /\ cell' = IF as_mut(cell) # None THEN Some(w) ELSE cell
  /\ last' = Event("as_mut", 0, FALSE, <<>>, cell, as_mut(cell))
  /\ refs' = FALSE
  /\ UNCHANGED <<stack, ncalls, firstOk, okRets, topErr, created, panicked>>
  /\ UNCHANGED <<nwrites, copy>>
  /\ UNCHANGED moveVars
  /\ UNCHANGED cloningVars

-----------------------------------------------------------------------------
(* MoveCell *)

\* The new value returned instead of the old one.
mem_replace_returns_src(dest, src) == [dest |-> src, ret |-> src]

\* std::mem::replace(dest, src): src is stored, the old content returned.
mem_replace(dest, src) == [dest |-> src, ret |-> dest]

\* Default::default() of the value type, which take() leaves in the cell.
DefaultValue == ""

MoveInit ==
  /\ mvalue \in Values
  /\ malive = TRUE
  /\ margs = <<mvalue>>
  /\ mrets = <<>>
  /\ mlast = <<"new">>
  /\ mtok = 1
  /\ mout = <<>>

\* self.replace(value): `value`, the next of margs, goes in and the content
\* comes out.
replace(value) ==
  LET r == mem_replace(<<mtok, mvalue>>, <<Len(margs) + 1, value>>)
  IN /\ mvalue' = r.dest[2]
     /\ mtok' = r.dest[1]
     /\ mrets' = Append(mrets, r.ret[2])
     /\ mout' = Append(mout, r.ret[1])
     /\ margs' = Append(margs, value)

\* MoveCell::replace.
Replace(value) ==
  /\ malive
  /\ Len(mrets) < MaxReplace
  /\ replace(value)
  /\ mlast' = <<"replace", mrets'[Len(mrets')]>>
  /\ UNCHANGED malive
  /\ UNCHANGED onceVars
  /\ UNCHANGED cloningVars

\* MoveCell::into_inner consumes the cell.
IntoInner ==
  /\ malive
  /\ malive' = FALSE
  /\ mlast' = <<"into_inner", mvalue>>
  /\ mout' = Append(mout, mtok)
  /\ UNCHANGED <<mvalue, margs, mrets, mtok>>
  /\ UNCHANGED onceVars
  /\ UNCHANGED cloningVars

\* MoveCell::take: replace with the default value.
Take ==
  /\ malive
  /\ Len(mrets) < MaxReplace
  /\ replace(DefaultValue)
  /\ mlast' = <<"take", mrets'[Len(mrets')]>>
  /\ UNCHANGED malive
  /\ UNCHANGED onceVars
  /\ UNCHANGED cloningVars

\* MoveCell::set: replace, and the old content is dropped at once.
Set(value) ==
  /\ malive
  /\ Len(mrets) < MaxReplace
  /\ replace(value)
  /\ mlast' = <<"set", "()">>
  /\ UNCHANGED malive
  /\ UNCHANGED onceVars
  /\ UNCHANGED cloningVars

-----------------------------------------------------------------------------
(* CloningCell *)

\* The types T considered: Box<..> and Option<..> wrappers around String,
\* Rc<X>, Weak<X> or Node, for X in {String, Node}.  Node stands for a user
\* type whose clone() and destructor call back into the cell that holds it
\* (Caesium137 of the doc example); it has no NonSelfReferentialClone impl.
Wrappers == {"Box", "Option"}
Leaves ==
  {<<"String">>, <<"Node">>, <<"Rc", "String">>, <<"Rc", "Node">>,
   <<"Weak", "String">>, <<"Weak", "Node">>}
RECURSIVE TypesUpTo(_)
TypesUpTo(n) ==
  IF n = 0 THEN Leaves
  ELSE TypesUpTo(n - 1)
         \cup {<<w>> \o t : w \in Wrappers, t \in TypesUpTo(n - 1)}
Types == TypesUpTo(MaxWrap)

\* Box<T> certified for every T, the bound on T forgotten.
RECURSIVE NonSelfReferentialClone_box_unbounded(_)
NonSelfReferentialClone_box_unbounded(ty) ==
  CASE ty = <<"String">> -> TRUE
    [] Head(ty) \in {"Rc", "Weak"} -> TRUE
    [] Head(ty) = "Box" -> TRUE
    [] Head(ty) = "Option" -> NonSelfReferentialClone_box_unbounded(Tail(ty))
    [] OTHER -> FALSE

\* The impls of NonSelfReferentialClone, lines 84-90.
RECURSIVE NonSelfReferentialClone(_)
NonSelfReferentialClone(ty) ==
  CASE ty = <<"String">> -> TRUE
    [] Head(ty) \in {"Rc", "Weak"} -> TRUE
    [] Head(ty) \in {"Box", "Option"} -> NonSelfReferentialClone(Tail(ty))
    [] OTHER -> FALSE

\* The clone impls that <T as Clone>::clone runs, outermost first: Box and
\* Option clone their content; Rc and Weak bump a count and stop there.
RECURSIVE CloneRuns(_)
CloneRuns(ty) ==
  IF Head(ty) \in Wrappers THEN <<Head(ty)>> \o CloneRuns(Tail(ty))
  ELSE <<Head(ty)>>

\* The clone of a T reads or writes the cell that holds it.
CloneReenters(ty) ==
  \E i \in 1..Len(CloneRuns(ty)) : CloneRuns(ty)[i] = "Node"

\* The part of T that holds the content: T without its wrappers.
RECURSIVE Leaf(_)
Leaf(ty) == IF Head(ty) \in Wrappers THEN Leaf(Tail(ty)) ELSE ty

\* A clone of T is a new handle to the same object (Rc, Weak), not a copy.
Shares(ty) == Head(Leaf(ty)) \in {"Rc", "Weak"}

\* Dropping a T runs a destructor that calls back into the cell: Node's
\* own, reached through the wrappers or through the last Rc handle.
DropReenters(ty, sole) ==
  \/ Leaf(ty) = <<"Node">>
  \/ Leaf(ty) = <<"Rc", "Node">> /\ sole

\* The objects: 1..MaxObjs, each free or holding a content.
Objs == 1..MaxObjs
HasFree(heap) == \E o \in Objs : heap[o] = "free"
Alloc(heap) == CHOOSE o \in Objs : heap[o] = "free" /\ \A q \in 1..(o - 1) : heap[q] # "free"

\* The caller lets go of the copy it holds: its object is freed unless the
\* slot holds the same object.
DropCopy(heap, copyobj, slot) ==
  IF copyobj # 0 /\ copyobj # slot THEN [heap EXCEPT ![copyobj] = "free"] ELSE heap

\* A bitwise copy (ptr::read) instead of a clone: the same object for every T.
T_clone_bitwise(ty, heap, obj) == [heap |-> heap, obj |-> obj]

\* A new, empty value instead of a clone.
T_clone_empty(ty, heap, obj) ==
  IF Shares(ty) THEN [heap |-> heap, obj |-> obj]
  ELSE [heap |-> [heap EXCEPT ![Alloc(heap)] = ""], obj |-> Alloc(heap)]

\* (*self.0.get()).clone(), line 35: a new object with the same content,
\* or for Rc and Weak a new handle to the same object.
T_clone(ty, heap, obj) ==
  IF Shares(ty) THEN [heap |-> heap, obj |-> obj]
  ELSE [heap |-> [heap EXCEPT ![Alloc(heap)] = heap[obj]], obj |-> Alloc(heap)]

\* *self.0.get() = value, line 51: the assignment drops the old content in
\* place, and only then moves `value` in.  `dropping` is what the slot holds
\* while the old content's destructor runs.
assign(old, value) == [dropping |-> old, final |-> value]

\* What a get() that runs while `obj` is in the slot can return, `dying`
\* being the object under destruction.
Observations(heap, obj, dying) ==
  IF obj = dying THEN {heap[obj], "garbage"} ELSE {heap[obj]}

NoGet == [text |-> "-", prev |-> "-"]

CloningInit ==
  /\ ctype \in {ty \in Types : NonSelfReferentialClone(ty)}
  /\ \E v \in Values :
       /\ cheap = [o \in Objs |-> IF o = 1 THEN v ELSE "free"]
       /\ clastset = v
  /\ cslot = 1
  /\ ccopy = 0
  /\ cop = "new"
  /\ cgot = NoGet
  /\ cnest = <<>>
  /\ caliased = FALSE
  /\ cub = FALSE

\* CloningCell::get.  The caller lets go of the copy it held.
CGet ==
  /\ ~cub
  /\ cop' = "get"
  /\ IF CloneReenters(ctype)
     THEN /\ caliased' = TRUE
          /\ cub' = TRUE
          /\ UNCHANGED <<cheap, ccopy, cgot>>
     ELSE LET c == T_clone(ctype, DropCopy(cheap, ccopy, cslot), cslot)
          IN /\ cheap' = c.heap
             /\ ccopy' = c.obj
             /\ cgot' = [text |-> c.heap[c.obj], prev |-> cgot.text]
             /\ UNCHANGED <<caliased, cub>>
  /\ UNCHANGED <<ctype, cslot, clastset, cnest>>
  /\ UNCHANGED onceVars
  /\ UNCHANGED moveVars

\* CloningCell::set(value), value a new object of content v.  `sole`: no
\* handle to the old content is held outside the cell.  `probe`: what a
\* get() issued by the old content's destructor returned, "none" if the
\* destructor issued none.
CSet(v, sole, probe) ==
  /\ ~cub
  /\ HasFree(cheap)
  /\ LET value == Alloc(cheap)
         heap1 == [cheap EXCEPT ![value] = v]
         a == assign(cslot, value)
         only == IF Shares(ctype) THEN sole /\ ccopy # cslot ELSE TRUE
     IN /\ probe \in
             (IF DropReenters(ctype, only)
              THEN {"none"} \cup Observations(heap1, a.dropping, cslot)
              ELSE {"none"})
        /\ cheap' = IF only THEN [heap1 EXCEPT ![cslot] = "free"] ELSE heap1
        /\ cslot' = a.final
        /\ cnest' = IF probe = "none" THEN <<>>
                     ELSE [observed |-> probe, installed |-> v]
        /\ cub' = (probe # "none" /\ a.dropping = cslot)
  /\ cop' = "set"
  /\ clastset' = v
  /\ cgot' = NoGet
  /\ UNCHANGED <<ctype, ccopy, caliased>>
  /\ UNCHANGED onceVars
  /\ UNCHANGED moveVars

\* The caller changes the copy get() gave it: in place when it owns the
\* content, by pointing its handle at a new object for Rc and Weak.
CMutateCopy(w) ==
  /\ ~cub
  /\ ccopy # 0
  /\ cop' = "mutate"
  /\ IF Shares(ctype)
     THEN LET heap1 == DropCopy(cheap, ccopy, cslot)
          IN /\ HasFree(heap1)
             /\ ccopy' = Alloc(heap1)
             /\ cheap' = [heap1 EXCEPT ![Alloc(heap1)] = w]
     ELSE /\ cheap' = [cheap EXCEPT ![ccopy] = w]
          /\ UNCHANGED ccopy
  /\ UNCHANGED <<ctype, cslot, cgot, clastset, cnest, caliased, cub>>
  /\ UNCHANGED onceVars
  /\ UNCHANGED moveVars

-----------------------------------------------------------------------------
(* Specifications *)

MoveIdle ==
  /\ mvalue = "ribosome" /\ malive = TRUE /\ margs = <<"ribosome">>
  /\ mrets = <<>> /\ mlast = <<"new">> /\ mtok = 1 /\ mout = <<>>

CloningIdle ==
  /\ ctype = <<"String">> /\ cslot = 1 /\ ccopy = 0 /\ cop = "new"
  /\ cheap = [o \in Objs |-> IF o = 1 THEN "ribosome" ELSE "free"]
  /\ cgot = NoGet /\ clastset = "ribosome" /\ cnest = <<>>
  /\ caliased = FALSE /\ cub = FALSE

OnceIdle ==
  /\ cell = None /\ stack = <<>> /\ ncalls = 0 /\ firstOk = None
  /\ last = Event("new", 0, FALSE, <<>>, <<>>, <<>>)
  /\ okRets = {} /\ topErr = None /\ created = None /\ panicked = FALSE
  /\ nwrites = 0 /\ refs = FALSE /\ copy = <<>>

\* The OnceCell under every operation it exposes.
Init == OnceInit /\ MoveIdle /\ CloningIdle
Next ==
  \/ \E op \in CallOps : Call(op)
  \/ \E result \in Results : Return(result)
  \/ Unwind
  \/ AsRef
  \/ Clone
  \/ \E w \in Values : AsMut(w)
Spec == Init /\ [][Next]_vars

\* The OnceCell under the operations of a shared view (&self).
NextShared ==
  \/ \E op \in CallOps : Call(op)
  \/ \E result \in Results : Return(result)
  \/ Unwind
  \/ AsRef
  \/ Clone
SpecShared == Init /\ [][NextShared]_vars

\* The OnceCell when init_once and try_init_once are called from the top
\* level only (no initializer calls back into the cell).
CallTop(op) == stack = <<>> /\ Call(op)
NextTop ==
  \/ \E op \in CallOps : CallTop(op)
  \/ \E result \in Results : Return(result)
  \/ Unwind
  \/ AsRef
  \/ Clone
SpecTop == Init /\ [][NextTop]_vars

\* The MoveCell under replace and into_inner.
InitMove == OnceIdle /\ MoveInit /\ CloningIdle
NextMove ==
  \/ \E value \in Values : Replace(value)
  \/ IntoInner
SpecMove == InitMove /\ [][NextMove]_vars

\* The OnceCell and the cell clone() made of it.
NextClone ==
  \/ \E op \in CallOps : Call(op)
  \/ \E result \in Results : Return(result)
  \/ Unwind
  \/ Clone
  \/ \E result \in Results : CopyTryInitOnce(result)
SpecClone == Init /\ [][NextClone]_vars

\* The MoveCell with take and set.
NextMoveExt ==
  \/ \E value \in Values : Replace(value)
  \/ IntoInner
  \/ Take
  \/ \E value \in Values : Set(value)
SpecMoveExt == InitMove /\ [][NextMoveExt]_vars

\* The CloningCell under get and set, with what the caller does to the copy.
InitCloning == OnceIdle /\ MoveIdle /\ CloningInit
NextCloning ==
  \/ CGet
  \/ \E v \in Values, sole \in BOOLEAN, probe \in Values \cup {"none", "garbage"} :
       CSet(v, sole, probe)
  \/ \E w \in Values : CMutateCopy(w)
SpecCloning == InitCloning /\ [][NextCloning]_vars

-----------------------------------------------------------------------------
(* Properties *)

\* last is the return of a call of init_once or try_init_once.
Returned == last.op \in CallOps
\* last is the return of a call whose initializer ran.
ReturnedFromF == Returned /\ last.invoked
\* A call nested in the one that just returned installed the value `o`.
InstalledByNested(o) ==
  \E p \in okRets : p[1] > last.depth /\ Some(p[2]) = o

\* C1: once the cell is Present(v), no step of init_once, try_init_once,
\* as_ref or clone, at the top level or nested in an initializer, makes it
\* Absent or changes v, and as_ref returns Some(v).
C1_PresentIsAbsorbing ==
  [][cell # None =>
       /\ cell' = cell
       /\ as_ref(cell') = Some(Unwrap(cell))
       /\ (last'.op = "as_ref" => last'.res = Some(Unwrap(cell)))]_vars

\* A Present cell that has seen a failed initializer, nested calls and a
\* later as_ref.
C1_Witness ==
  /\ created = None /\ cell # None /\ last.op = "as_ref"
  /\ ncalls >= 3 /\ Cardinality(okRets) >= 2

\* C2: a call of init_once or try_init_once on a Present cell invokes no
\* initializer (the count of invocations stays as it is) and returns Ok with
\* the stored value, which it leaves in place.
C2_NoCallWhenPresent ==
  [][cell # None =>
       /\ ncalls' = ncalls
       /\ last'.op # "enter"
       /\ (last'.op \in CallOps /\ ~last'.invoked =>
             last'.res = Ok(Unwrap(cell)) /\ cell' = cell)]_vars

\* A call returned on the fast path; the one initializer invocation is the
\* one that installed the value.
C2_Witness ==
  /\ created = None /\ cell # None /\ Returned /\ ~last.invoked
  /\ last.res = Ok(Unwrap(cell)) /\ ncalls = 1

\* C3: when the initializer of a call on an Absent cell returns Ok(outer)
\* after a nested call installed inner, the cell holds inner, the call
\* returns inner, and outer is neither stored nor returned.
C3_ReentrancyPrecedence ==
  (ReturnedFromF /\ IsOk(last.fres) /\ InstalledByNested(last.pre)) =>
    /\ cell = last.pre
    /\ last.res = Ok(Unwrap(last.pre))
    /\ (last.fres[2] # Unwrap(last.pre) =>
          cell # Some(last.fres[2]) /\ last.res # last.fres)

\* init_once(|| { init_once(|| "ribosome"); "nucleolus" }) has returned.
C3_Witness ==
  /\ ReturnedFromF /\ last.op = "init_once" /\ last.depth = 1
  /\ last.fres = Ok("nucleolus") /\ okRets = {<<2, "ribosome">>, <<1, "nucleolus">>}
  /\ cell = Some("ribosome") /\ last.res = Ok("ribosome")

\* C4: when the initializer of a try_init_once call on an Absent cell
\* returns Err(e) after a nested call installed a value, the call returns Ok
\* with the nested value, not Err(e), and as_ref yields the nested value.
C4_ErrorThenReentrantSuccess ==
  (ReturnedFromF /\ last.op = "try_init_once" /\ IsErr(last.fres)
     /\ InstalledByNested(last.pre)) =>
    /\ last.res = Ok(Unwrap(last.pre))
    /\ as_ref(cell) = last.pre

\* try_init_once(|| { init_once(|| "ribosome"); Err("e2") }) has returned.
C4_Witness ==
  /\ ReturnedFromF /\ last.op = "try_init_once" /\ last.depth = 1
  /\ last.fres = Err("e2") /\ okRets = {<<2, "ribosome">>}
  /\ last.res = Ok("ribosome") /\ cell = Some("ribosome")

\* C5: when the initializer of a try_init_once call returns Err(e) and the
\* cell is still Absent, the call returns exactly Err(e) and leaves the cell
\* Absent; and on an Absent cell no call returns without having invoked its
\* initializer, so a later call runs its initializer again.
C5_InitializerFailure ==
  [][/\ (last'.op = "try_init_once" /\ last'.invoked /\ IsErr(last'.fres)
           /\ cell = None) =>
          (last'.res = last'.fres /\ cell' = None)
     /\ (last'.op = "try_init_once" /\ last'.depth = 1 /\ IsErr(last'.res)) =>
          topErr' = Some(last'.fres[2])
     /\ (cell = None /\ last'.op \in CallOps) => last'.invoked
     /\ (cell = None /\ last'.op = "enter") => ncalls' = ncalls + 1]_vars

\* A top-level try_init_once failed with e2 and left the cell Absent; the
\* next top-level call invoked its initializer and initialized the cell.
C5_Witness ==
  /\ topErr = Some("e2") /\ ncalls = 2
  /\ ReturnedFromF /\ last.depth = 1 /\ last.pre = None
  /\ last.fres = Ok("ribosome") /\ cell = Some("ribosome")

\* C6: with top-level calls only, on a cell created Absent, as_ref is None
\* and every call fails until the first initializer returns successfully;
\* from then on as_ref and every call's return value are that first value.
C6_Idempotence ==
  created = None =>
    IF firstOk = None
    THEN as_ref(cell) = None /\ (Returned => IsErr(last.res))
    ELSE /\ as_ref(cell) = firstOk
         /\ (Returned => last.res = Ok(Unwrap(firstOk)))

\* A failed call, a successful one, and then a call that found the cell
\* Present.
C6_Witness ==
  /\ created = None /\ ncalls = 2 /\ firstOk = Some("ribosome")
  /\ Returned /\ ~last.invoked /\ last.res = Ok("ribosome")

\* C7: among the initializers that return successfully on a cell created
\* Absent, the innermost one is alone at its depth, its value is the one
\* the cell holds, and every call that returns from then on returns Ok with
\* that value.
C7_InnermostWins ==
  (created = None /\ okRets # {}) =>
    \E p \in okRets :
      /\ \A q \in okRets : q # p => q[1] < p[1]
      /\ cell = Some(p[2])
      /\ (Returned => last.res = Ok(p[2]))

\* Three nested calls: the innermost initializer succeeded, the middle one
\* failed and the outermost one succeeded with another value.
C7_Witness ==
  /\ created = None /\ stack = <<>> /\ ReturnedFromF /\ last.depth = 1
  /\ okRets = {<<3, "vesicle">>, <<1, "nucleolus">>}
  /\ cell = Some("vesicle") /\ last.res = Ok("vesicle")

C9_AsStated ==
  [][cell # None => as_ref(cell') = as_ref(cell)]_vars

\* C9 amended: no operation makes a Present cell Absent, and its value
\* changes only in a step of as_mut, taken while no call on the cell is
\* running.
C9_OnlyAsMutChangesValue ==
  [][cell # None =>
       /\ cell' # None
       /\ (as_ref(cell') # as_ref(cell) =>
             last'.op = "as_mut" /\ stack = <<>> /\ stack' = <<>>)]_vars

\* as_mut was used to change the value of a Present cell.
C9_Witness ==
  /\ last.op = "as_mut" /\ last.pre # None /\ cell # None /\ cell # last.pre

\* C10: the k-th replace returns v(k-1), and into_inner yields vn, where v0
\* is the construction value and v1..vn the arguments of the replace calls.
C10_SwapCorrectness ==
  /\ Len(margs) = Len(mrets) + 1
  /\ \A k \in 1..Len(mrets) : mrets[k] = margs[k]
  /\ (mlast[1] = "replace" => mlast[2] = margs[Len(margs) - 1])
  /\ (mlast[1] = "into_inner" => mlast[2] = margs[Len(margs)])

\* new("ribosome"), replace("nucleolus"), replace("vesicle"), into_inner.
C10_Witness ==
  /\ margs = <<"ribosome", "nucleolus", "vesicle">>
  /\ mrets = <<"ribosome", "nucleolus">>
  /\ mlast = <<"into_inner", "vesicle">>

\* C11: get() leaves the content of the CloningCell as it is and returns a
\* copy equal to it: the content is always the argument of the most recent
\* set (of new if there was none), every get() between calls returns it, and
\* a get() that follows a get() with no set between them returns the same.
C11_GetReturnsLastSet ==
  /\ cheap[cslot] = clastset
  /\ cgot.text \in {"-", clastset}
  /\ cgot.prev \in {"-", cgot.text}

\* new, set("nucleolus") and two get() calls.
C11_Witness ==
  /\ ctype = <<"String">> /\ cop = "get" /\ cslot # 1
  /\ clastset = "nucleolus" /\ cgot = [text |-> "nucleolus", prev |-> "nucleolus"]

C13_CloneIsIndependent ==
  [][/\ (last'.op = "clone" =>
           /\ cell' = cell
           /\ Len(copy') = 1
           /\ (as_ref(copy'[1]) = None <=> as_ref(cell) = None)
           /\ (as_ref(cell) # None => Unwrap(copy'[1]) = Unwrap(cell)))
     /\ (last'.op = "copy.try_init_once" => cell' = cell)
     /\ (last'.op \notin {"clone", "copy.try_init_once"} => copy' = copy)]_vars

\* The clone of an Absent cell was initialized; the original is still Absent.
C13_Witness ==
  /\ last.op = "copy.try_init_once" /\ last.invoked
  /\ copy = <<Some("ribosome")>> /\ cell = None /\ created = None

\* C14: take() returns the previous content and leaves the default value in
\* the cell; set(new_value) leaves new_value in the cell and discards the
\* previous content; each moves the values as replace does.
C14_TakeAndSet ==
  /\ mlast[1] = "take" =>
       /\ mlast[2] = margs[Len(margs) - 1]
       /\ mvalue = DefaultValue
  /\ mlast[1] = "set" =>
       /\ mvalue = margs[Len(margs)]
       /\ mrets[Len(mrets)] = margs[Len(margs) - 1]
  /\ \A k \in 1..Len(mrets) : mrets[k] = margs[k]

\* new("ribosome"), set("nucleolus"), take().
C14_Witness ==
  /\ margs = <<"ribosome", "nucleolus", DefaultValue>>
  /\ mlast = <<"take", "nucleolus">> /\ mvalue = DefaultValue

\* C15: through a shared view the write of line 151 runs at most once for a
\* cell, only while the cell is Absent and before any reference into the
\* slot has been handed out, and it leaves the cell Present.
C15_WriteOnceWhileAbsent ==
  [][/\ nwrites <= 1
     /\ (nwrites' # nwrites =>
           /\ nwrites = 0 /\ nwrites' = 1
           /\ cell = None /\ cell' # None
           /\ ~refs)]_vars

\* Nested calls have all returned; there was one write.
C15_Witness ==
  /\ nwrites = 1 /\ stack = <<>> /\ refs /\ ncalls >= 3
  /\ Cardinality(okRets) >= 2

\* C16: no unwrap() of the cell's own code fails: init_once never sees an
\* Err, and the as_ref().unwrap() that ends try_init_once never sees None.
C16_NoPanic ==
  /\ ~panicked
  /\ (last.op = "init_once" => IsOk(last.res))
  /\ (last.op \in CallOps \cup {"copy.try_init_once"} => last.res[1] # "Panic")

\* init_once returned after its initializer had initialized the cell
\* reentrantly.
C16_Witness ==
  /\ last.op = "init_once" /\ last.invoked /\ last.depth = 1
  /\ last.pre # None /\ last.res = Ok(Unwrap(last.pre))

\* C17 as stated: a get() issued on the cell from the destructor of the
\* content that set() displaces observes the complete new value.
C17_AsStated ==
  cnest # <<>> => cnest.observed = cnest.installed

\* C18: for every T that has a NonSelfReferentialClone impl, the clone that
\* get() runs does not reach a clone impl that accesses the cell, and no
\* get() has its slot accessed while it clones.
C18_CloneDoesNotReenter ==
  /\ ~CloneReenters(ctype)
  /\ ~caliased

\* get() on a CloningCell<Option<Rc<Node>>>: Node's clone would call back
\* into the cell, and Rc's clone does not run it.
C18_Witness ==
  /\ ctype = <<"Option", "Rc", "Node">> /\ cop = "get"
  /\ ccopy = cslot /\ ~cub

\* C19: when an initializer unwinds out of its call, the call leaves the
\* cell as it found it: Absent, or Present with the value that a nested call
\* which had returned installed.
C19_UnwindLeavesCellWhole ==
  last.op = "unwind" =>
    /\ cell = last.pre
    /\ \/ cell = None
       \/ \E p \in okRets : p[1] > last.depth /\ cell = Some(p[2])

\* The outer initializer unwound after a nested call had initialized the
\* cell.
C19_Witness ==
  /\ last.op = "unwind" /\ last.depth = 1 /\ stack = <<>>
  /\ okRets = {<<2, "ribosome">>} /\ cell = Some("ribosome")

\* How many times the value of index t has been handed back to a caller.
TimesOut(t) == Cardinality({i \in 1..Len(mout) : mout[i] = t})

\* C20: a MoveCell that has not been consumed holds one of the values put
\* into it, and each value ever put into the cell is either the content of
\* the cell or has been handed back to a caller exactly once, never both.
C20_NoValueLostOrDuplicated ==
  /\ malive => mtok \in 1..Len(margs) /\ mvalue = margs[mtok] /\ mvalue \in Values
  /\ \A t \in 1..Len(margs) :
       TimesOut(t) = (IF malive /\ mtok = t THEN 0 ELSE 1)

\* "ribosome" was put in twice; both came back, once each.
C20_Witness ==
  /\ ~malive /\ margs = <<"ribosome", "nucleolus", "ribosome">>
  /\ mout = <<1, 2, 3>>

====
